---------------------------- MODULE Spec2Model ----------------------------
(***************************************************************************)
(* A model of target_postgres/db_sync.py: the column namer (inflect_name,  *)
(* flatten_key), the schema flattener (flatten_schema), the column diff    *)
(* (update_columns / sync_table) and the staged upsert (load_csv) of the   *)
(* DbSync class, driven against a model of the PostgreSQL collaborator.    *)
(*                                                                         *)
(* A Python str is modelled as a sequence of one-character strings, so     *)
(* that the regular-expression rewrites of inflect_name and flatten_key    *)
(* are computed character by character as the code computes them.          *)
(***************************************************************************)
EXTENDS Integers, Sequences, FiniteSets, Bags, TLC

\* ------------------------------------------------------------------------
\* Characters and strings
\* ------------------------------------------------------------------------

Digits == <<"0", "1", "2", "3", "4", "5", "6", "7", "8", "9">>

Uppers == <<"A", "B", "C", "D", "E", "F", "G", "H", "I", "J", "K", "L", "M",
            "N", "O", "P", "Q", "R", "S", "T", "U", "V", "W", "X", "Y", "Z">>

Lowers == <<"a", "b", "c", "d", "e", "f", "g", "h", "i", "j", "k", "l", "m",
            "n", "o", "p", "q", "r", "s", "t", "u", "v", "w", "x", "y", "z">>

\* The characters of the model in ASCII order (str comparison in sorted()).
Ascii == <<" ", "-", ".">> \o Digits \o Uppers \o <<"_">> \o Lowers

Range(s) == {s[i] : i \in 1..Len(s)}

IsDigit(c) == c \in Range(Digits)

IsUpper(c) == c \in Range(Uppers)

IsLower(c) == c \in Range(Lowers)

IsAlnum(c) == IsDigit(c) \/ IsUpper(c) \/ IsLower(c)

IndexOf(seq, c) == CHOOSE i \in 1..Len(seq) : seq[i] = c

\* str.lower() / str.upper() on one character
LowerChar(c) == IF IsUpper(c) THEN Lowers[IndexOf(Uppers, c)] ELSE c

UpperChar(c) == IF IsLower(c) THEN Uppers[IndexOf(Lowers, c)] ELSE c

StrLower(s) == [i \in 1..Len(s) |-> LowerChar(s[i])]

\* s[lo:hi] of Python with 1-based inclusive bounds, empty when out of range
Slice(s, lo, hi) ==
    IF lo > hi \/ lo > Len(s) THEN <<>>
    ELSE SubSeq(s, lo, IF hi > Len(s) THEN Len(s) ELSE hi)

\* str < str of Python (code point order, a proper prefix is smaller)
RECURSIVE StrLess(_, _)
StrLess(s, t) ==
    IF s = <<>> THEN t # <<>>
    ELSE IF t = <<>> THEN FALSE
    ELSE IF s[1] = t[1] THEN StrLess(Tail(s), Tail(t))
    ELSE IndexOf(Ascii, s[1]) < IndexOf(Ascii, t[1])

\* sep.join(parts)
RECURSIVE Join(_, _)
Join(sep, parts) ==
    IF parts = <<>> THEN <<>>
    ELSE IF Len(parts) = 1 THEN parts[1]
    ELSE parts[1] \o sep \o Join(sep, Tail(parts))

\* ------------------------------------------------------------------------
\* inflect_name
\* ------------------------------------------------------------------------

\* re.sub(r'[^a-zA-Z0-9]', '_', name)
SubNonAlnum(s) == [i \in 1..Len(s) |-> IF IsAlnum(s[i]) THEN s[i] ELSE "_"]

\* the end of the maximal run of upper-case letters that starts at i
RECURSIVE UpperRunEnd(_, _)
UpperRunEnd(s, i) ==
    IF i + 1 <= Len(s) /\ IsUpper(s[i + 1]) THEN UpperRunEnd(s, i + 1) ELSE i

\* re.sub(r"([A-Z]+)_([A-Z][a-z])", r'\1__\2', name), scanning from i
RECURSIVE SubAcronymUnderscore(_, _)
SubAcronymUnderscore(s, i) ==
    IF i > Len(s) THEN <<>>
    ELSE IF IsUpper(s[i])
         THEN LET j == UpperRunEnd(s, i)
              IN  IF /\ j + 3 <= Len(s)
                     /\ s[j + 1] = "_"
                     /\ IsUpper(s[j + 2])
                     /\ IsLower(s[j + 3])
                  THEN SubSeq(s, i, j) \o <<"_", "_", s[j + 2], s[j + 3]>>
                           \o SubAcronymUnderscore(s, j + 4)
                  ELSE <<s[i]>> \o SubAcronymUnderscore(s, i + 1)
         ELSE <<s[i]>> \o SubAcronymUnderscore(s, i + 1)

\* re.sub(r"([a-z\d])_([A-Z])", r'\1__\2', name), scanning from i
RECURSIVE SubLowerUnderscore(_, _)
SubLowerUnderscore(s, i) ==
    IF i > Len(s) THEN <<>>
    ELSE IF /\ i + 2 <= Len(s)
            /\ (IsLower(s[i]) \/ IsDigit(s[i]))
            /\ s[i + 1] = "_"
            /\ IsUpper(s[i + 2])
         THEN <<s[i], "_", "_", s[i + 2]>> \o SubLowerUnderscore(s, i + 3)
         ELSE <<s[i]>> \o SubLowerUnderscore(s, i + 1)

\* inflection.underscore, first rewrite:
\* re.sub(r"([A-Z]+)([A-Z][a-z])", r'\1_\2', word), scanning from i
RECURSIVE SubAcronymWord(_, _)
SubAcronymWord(s, i) ==
    IF i > Len(s) THEN <<>>
    ELSE IF IsUpper(s[i])
         THEN LET j == UpperRunEnd(s, i)
              IN  IF j > i /\ j + 1 <= Len(s) /\ IsLower(s[j + 1])
                  THEN SubSeq(s, i, j - 1) \o <<"_", s[j], s[j + 1]>>
                           \o SubAcronymWord(s, j + 2)
                  ELSE <<s[i]>> \o SubAcronymWord(s, i + 1)
         ELSE <<s[i]>> \o SubAcronymWord(s, i + 1)

\* inflection.underscore, second rewrite:
\* re.sub(r"([a-z\d])([A-Z])", r'\1_\2', word), scanning from i
RECURSIVE SubLowerUpper(_, _)
SubLowerUpper(s, i) ==
    IF i > Len(s) THEN <<>>
    ELSE IF /\ i + 1 <= Len(s)
            /\ (IsLower(s[i]) \/ IsDigit(s[i]))
            /\ IsUpper(s[i + 1])
         THEN <<s[i], "_", s[i + 1]>> \o SubLowerUpper(s, i + 2)
         ELSE <<s[i]>> \o SubLowerUpper(s, i + 1)

\* word.replace("-", "_")
ReplaceDash(s) == [i \in 1..Len(s) |-> IF s[i] = "-" THEN "_" ELSE s[i]]

\* inflection.underscore(word)
underscore(word) ==
    StrLower(ReplaceDash(SubLowerUpper(SubAcronymWord(word, 1), 1)))

\* inflect_name(name), for a non-empty name
inflect_name(name) ==
    LET n1 == SubNonAlnum(name)
        n2 == SubAcronymUnderscore(n1, 1)
        n3 == SubLowerUnderscore(n2, 1)
        n4 == IF IsDigit(n3[1]) THEN <<"_">> \o n3 ELSE n3
    IN  underscore(n4)

\* ------------------------------------------------------------------------
\* flatten_key
\* ------------------------------------------------------------------------

\* The identifier length cap of the while condition of flatten_key
NameCap == 63

\* the separator flatten_schema and flatten_record pass to flatten_key
Sep == <<"_", "_">>

\* inflection.camelize(s): re.sub(r"(?:^|_)(.)", lambda m: m.group(1).upper(), s)
RECURSIVE CamelizeFrom(_, _)
CamelizeFrom(s, i) ==
    IF i > Len(s) THEN <<>>
    ELSE IF i = 1 THEN <<UpperChar(s[1])>> \o CamelizeFrom(s, 2)
    ELSE IF s[i] = "_" /\ i + 1 <= Len(s)
         THEN <<UpperChar(s[i + 1])>> \o CamelizeFrom(s, i + 2)
         ELSE <<s[i]>> \o CamelizeFrom(s, i + 1)

camelize(s) == CamelizeFrom(s, 1)

\* re.sub(r'[a-z]', '', s)
StripLower(s) == SelectSeq(s, LAMBDA c : ~IsLower(c))

\* one iteration's replacement for a segment (lines 173-175)
ReduceSegment(seg) ==
    LET reduced_key == StripLower(camelize(seg))
    IN  StrLower(IF Len(reduced_key) > 1 THEN reduced_key ELSE Slice(seg, 1, 3))

\* a loop that goes on to the last segment whatever the length of the name
RECURSIVE ReduceLoop_ToTheEnd(_, _)
ReduceLoop_ToTheEnd(inflected_key, reducer_index) ==
    IF reducer_index < Len(inflected_key)
    THEN ReduceLoop_ToTheEnd([inflected_key EXCEPT ![reducer_index + 1] =
                                 ReduceSegment(inflected_key[reducer_index + 1])],
                             reducer_index + 1)
    ELSE [key |-> inflected_key, idx |-> reducer_index]

\* the loop of flatten_key: the state after the while loop has ended, as
\* [key |-> inflected_key, idx |-> reducer_index (0-based, as in the code)]
RECURSIVE ReduceLoop(_, _)
ReduceLoop(inflected_key, reducer_index) ==
    IF Len(Join(Sep, inflected_key)) >= NameCap /\ reducer_index < Len(inflected_key)
    THEN ReduceLoop([inflected_key EXCEPT ![reducer_index + 1] =
                         ReduceSegment(inflected_key[reducer_index + 1])],
                    reducer_index + 1)
    ELSE [key |-> inflected_key, idx |-> reducer_index]

\* flatten_key(k, parent_key, sep): never raises, returns the joined name
flatten_key(k, parent_key) ==
    LET full_key == Append(parent_key, k)
        inflected_key == [i \in 1..Len(full_key) |-> inflect_name(full_key[i])]
    IN  Join(Sep, ReduceLoop(inflected_key, 0).key)

\* ------------------------------------------------------------------------
\* Column types
\* ------------------------------------------------------------------------

\* JSONSCHEMA_TYPES
JSONSCHEMA_TYPES ==
    {"string", "number", "integer", "object", "array", "boolean", "null"}

\* sorted(JSONSCHEMA_TYPES): the order of `for t in sorted(types)`
SortedKinds ==
    <<"array", "boolean", "integer", "null", "number", "object", "string">>

\* JSONSCHEMA_TYPE_TO_POSTGRES_TYPE
JSONSCHEMA_TYPE_TO_POSTGRES_TYPE(kind) ==
    CASE kind = "string"  -> "character varying"
      [] kind = "number"  -> "numeric"
      [] kind = "integer" -> "bigint"
      [] kind = "object"  -> "jsonb"
      [] kind = "array"   -> "jsonb"
      [] kind = "boolean" -> "boolean"

\* _JSONSCHEMA_TYPE_CAN_CAST_TO.get(target_type, ())
CAN_CAST_TO(target_type) ==
    CASE target_type = "string"  -> JSONSCHEMA_TYPES
      [] target_type = "number"  -> {"integer", "boolean"}
      [] target_type = "integer" -> {"boolean"}
      [] target_type = "object"  -> {"array"}
      [] OTHER                   -> {}

get_usable_types(types) == JSONSCHEMA_TYPES \cap (types \ {"null"})

get_castable_types(target_type) ==
    get_usable_types(CAN_CAST_TO(target_type) \cup {target_type})

\* the for loop of most_general_type over sorted(types), from position i,
\* carrying (best_score, best_type); best_type "None" stands for None
RECURSIVE BestFrom(_, _, _, _)
BestFrom(types, i, best_score, best_type) ==
    IF i > Len(SortedKinds) THEN best_type
    ELSE LET t == SortedKinds[i]
         IN  IF t \notin types THEN BestFrom(types, i + 1, best_score, best_type)
             ELSE LET score == Cardinality(get_castable_types(t) \cap types)
                  IN  IF score > best_score
                      THEN BestFrom(types, i + 1, score, t)
                      ELSE BestFrom(types, i + 1, best_score, best_type)

\* a most_general_type that returns the best-scoring type without asking
\* whether it accommodates every type
most_general_type_NoCover(types0) ==
    IF types0 = {} THEN "string"
    ELSE LET types == get_usable_types(types0)
             best_type == BestFrom(types, 1, 0, "None")
         IN  IF best_type = "None" THEN "string" ELSE best_type

most_general_type(types0) ==
    IF types0 = {} THEN "string"
    ELSE LET types == get_usable_types(types0)
             best_type == BestFrom(types, 1, 0, "None")
         IN  IF best_type = "None" \/ ~(types \subseteq get_castable_types(best_type))
             THEN "string"
             ELSE best_type

\* schema_property['format'] if 'format' in schema_property else None
FormatOf(schema_property) ==
    IF "format" \in DOMAIN schema_property THEN schema_property.format ELSE "None"

\* _column_type_generic; a property's 'type' is modelled as its set of kinds
\* (a str type is the singleton)
column_type_generic(schema_property) ==
    LET property_format == FormatOf(schema_property)
        concrete_type == most_general_type(schema_property.type)
    IN  IF concrete_type = "string" /\ property_format = "date-time"
        THEN "timestamp with time zone"
        ELSE IF concrete_type = "string" /\ property_format = "date"
        THEN "date"
        ELSE JSONSCHEMA_TYPE_TO_POSTGRES_TYPE(
                 IF concrete_type \in JSONSCHEMA_TYPES \ {"null"}
                 THEN concrete_type ELSE "string")

\* a _column_type_simple that tests for integer before boolean
column_type_simple_IntegerFirst(schema_property) ==
    LET property_type == schema_property.type
        property_format == FormatOf(schema_property)
    IN  IF "object" \in property_type \/ "array" \in property_type THEN "jsonb"
        ELSE IF property_format = "date-time" THEN "timestamp with time zone"
        ELSE IF property_format = "date" THEN "date"
        ELSE IF "number" \in property_type THEN "numeric"
        ELSE IF "integer" \in property_type /\ "string" \in property_type
        THEN "character varying"
        ELSE IF "integer" \in property_type THEN "bigint"
        ELSE IF "boolean" \in property_type THEN "boolean"
        ELSE "character varying"

\* _column_type_simple
column_type_simple(schema_property) ==
    LET property_type == schema_property.type
        property_format == FormatOf(schema_property)
    IN  IF "object" \in property_type \/ "array" \in property_type THEN "jsonb"
        ELSE IF property_format = "date-time" THEN "timestamp with time zone"
        ELSE IF property_format = "date" THEN "date"
        ELSE IF "number" \in property_type THEN "numeric"
        ELSE IF "integer" \in property_type /\ "string" \in property_type
        THEN "character varying"
        ELSE IF "boolean" \in property_type THEN "boolean"
        ELSE IF "integer" \in property_type THEN "bigint"
        ELSE "character varying"

\* column_type(schema_property, use_simple)
column_type(schema_property, use_simple) ==
    IF use_simple THEN column_type_simple(schema_property)
    ELSE column_type_generic(schema_property)

\* ------------------------------------------------------------------------
\* flatten_schema
\* ------------------------------------------------------------------------
\* A schema node is a record as the JSON document has it: 'type' (the set of
\* kinds), and optionally 'format', 'properties' (a function from property
\* names to nodes), 'anyOf' (a sequence of nodes) or, with no 'type', one
\* other keyword holding a sequence of nodes.  A flattening result is
\* [err |-> whether ValueError was raised, items |-> <<name, node>> pairs].

\* sorted(items, key=item[0]) by insertion
RECURSIVE InsertSorted(_, _)
InsertSorted(item, sorted) ==
    IF sorted = <<>> THEN <<item>>
    ELSE IF StrLess(item[1], sorted[1][1]) THEN <<item>> \o sorted
    ELSE <<sorted[1]>> \o InsertSorted(item, Tail(sorted))

RECURSIVE SortItems(_)
SortItems(items) ==
    IF items = <<>> THEN <<>>
    ELSE InsertSorted(items[Len(items)], SortItems(SubSeq(items, 1, Len(items) - 1)))

\* the groupby loop of lines 210-212: some group has more than one member
HasDuplicateName(sorted_items) ==
    \E i \in 1..(Len(sorted_items) - 1) : sorted_items[i][1] = sorted_items[i + 1][1]

\* the smallest key of a non-empty set of names (the model's iteration order
\* over d['properties']; the result is sorted, so the order does not show)
MinKey(keys) == CHOOSE k \in keys : \A o \in keys \ {k} : StrLess(k, o)

\* list(v.values())[0][0] of a node with no 'type'
FirstAlternative(v) == v[CHOOSE f \in DOMAIN v : TRUE][1]

\* a flatten_schema that does not look for duplicate names
RaisesDuplicate_Never(sorted_items) == FALSE

\* the duplicate check of lines 208-212: whether it raises on these items
RaisesDuplicate(sorted_items) == HasDuplicateName(sorted_items)

\* lines 208-214 on the items a for loop has collected
SortedAndChecked(r) ==
    LET sorted_items == SortItems(r.items)
    IN  IF r.err \/ RaisesDuplicate(sorted_items)
        THEN [err |-> TRUE, items |-> <<>>]
        ELSE [err |-> FALSE, items |-> sorted_items]

\* the item a property with no 'type' contributes (lines 197-206)
UntypedItems(new_key, v) ==
    IF DOMAIN v = {} THEN <<>>
    ELSE LET alt == FirstAlternative(v)
         IN  IF alt.type = {"string"}
             THEN << <<new_key, [alt EXCEPT !.type = {"null", "string"}]>> >>
             ELSE IF alt.type = {"array"}
             THEN << <<new_key, [alt EXCEPT !.type = {"null", "array"}]>> >>
             ELSE <<>>

\* v = v['anyOf'][0] of lines 186-189
ResolveAnyOf(v) == IF "anyOf" \in DOMAIN v THEN v.anyOf[1] ELSE v

\* the for loop of flatten_schema(d, parent_key) over the properties named
\* in keys: the items collected, and whether a nested call raised
RECURSIVE FlattenProperties(_, _, _)
FlattenProperties(d, parent_key, keys) ==
    IF keys = {} THEN [err |-> FALSE, items |-> <<>>]
    ELSE LET k == MinKey(keys)
             v == ResolveAnyOf(d.properties[k])
             first ==
                 IF "type" \in DOMAIN v
                 THEN IF "object" \in v.type /\ "properties" \in DOMAIN v
                      THEN SortedAndChecked(
                               FlattenProperties(v, Append(parent_key, k),
                                                 DOMAIN v.properties))
                      ELSE [err |-> FALSE,
                            items |-> << <<flatten_key(k, parent_key), v>> >>]
                 ELSE [err |-> FALSE,
                       items |-> UntypedItems(flatten_key(k, parent_key), v)]
             rest == FlattenProperties(d, parent_key, keys \ {k})
         IN  [err |-> first.err \/ rest.err, items |-> first.items \o rest.items]

\* flatten_schema(d, parent_key, sep='__')
flatten_schema(d, parent_key) ==
    SortedAndChecked(FlattenProperties(d, parent_key, DOMAIN d.properties))

\* ------------------------------------------------------------------------
\* Stream schema messages (the inputs of DbSync.__init__)
\* ------------------------------------------------------------------------

ScalarNode(kinds) == [type |-> kinds]

FormatNode(kinds, fmt) == [type |-> kinds, format |-> fmt]

ObjectNode(props) == [type |-> {"object"}, properties |-> props]

NameA == <<"a">>

NameB == <<"b">>

NameC == <<"c">>

NameId == <<"i", "d">>

NameV == <<"v">>

\* {id: integer, v: [null, string]}
SchemaFlat ==
    ObjectNode(NameId :> ScalarNode({"integer"})
               @@ NameV :> ScalarNode({"null", "string"}))

\* {a: integer, b: integer}
SchemaTwoKeys ==
    ObjectNode(NameA :> ScalarNode({"integer"})
               @@ NameB :> ScalarNode({"integer"}))

\* {a: integer, b: boolean, c: string/date-time}
SchemaTime ==
    ObjectNode(NameA :> ScalarNode({"integer"})
               @@ NameB :> ScalarNode({"null", "boolean"})
               @@ NameC :> FormatNode({"null", "string"}, "date-time"))

\* {id: integer, a: {b: boolean}, c: anyOf [number, string]}
SchemaNested ==
    ObjectNode(NameId :> ScalarNode({"integer"})
               @@ NameA :> ObjectNode(NameB :> ScalarNode({"boolean"}))
               @@ NameC :> [anyOf |-> <<ScalarNode({"number"}), ScalarNode({"string"})>>])

\* {a__b: string, a: {b: integer}}: the paths (a__b) and (a, b) both name a__b
SchemaCollideNested ==
    ObjectNode(<<"a", "_", "_", "b">> :> ScalarNode({"string"})
               @@ NameA :> ObjectNode(NameB :> ScalarNode({"integer"})))

\* {aB: integer, a_b: integer, v: string}: aB and a_b both inflect to a_b
SchemaCollideInflect ==
    ObjectNode(<<"a", "B">> :> ScalarNode({"integer"})
               @@ <<"a", "_", "b">> :> ScalarNode({"integer"})
               @@ NameV :> ScalarNode({"string"}))

\* {id: integer, a: {b-c: string, b.c: string}}: a collision below the top level
SchemaCollideDeep ==
    ObjectNode(NameId :> ScalarNode({"integer"})
               @@ NameA :> ObjectNode(<<"b", "-", "c">> :> ScalarNode({"string"})
                                      @@ <<"b", ".", "c">> :> ScalarNode({"string"})))

\* the stream_schema_message named m: 'stream', 'schema', 'key_properties'
Message(m) ==
    CASE m = "flat"      -> [stream |-> <<"t">>, schema |-> SchemaFlat,
                             key_properties |-> <<>>]
      [] m = "flat_key"  -> [stream |-> <<"t">>, schema |-> SchemaFlat,
                             key_properties |-> <<NameId>>]
      [] m = "two_keys"  -> [stream |-> <<"t">>, schema |-> SchemaTwoKeys,
                             key_properties |-> <<NameA, NameB>>]
      [] m = "time"      -> [stream |-> <<"t">>, schema |-> SchemaTime,
                             key_properties |-> <<>>]
      [] m = "time_key"  -> [stream |-> <<"T">>, schema |-> SchemaTime,
                             key_properties |-> <<NameA>>]
      [] m = "nested"    -> [stream |-> <<"t">>, schema |-> SchemaNested,
                             key_properties |-> <<NameId>>]
      [] m = "collide_nested"  -> [stream |-> <<"t">>, schema |-> SchemaCollideNested,
                                   key_properties |-> <<>>]
      [] m = "collide_inflect" -> [stream |-> <<"t">>, schema |-> SchemaCollideInflect,
                                   key_properties |-> <<NameV>>]
      [] m = "collide_deep"    -> [stream |-> <<"t">>, schema |-> SchemaCollideDeep,
                                   key_properties |-> <<NameId>>]

\* the names Message is defined for
MessageNames == {"flat", "flat_key", "two_keys", "time", "time_key", "nested",
                 "collide_nested", "collide_inflect", "collide_deep"}

\* primary_column_names without the quoting of safe_column_name
primary_column_names(stream_schema_message) ==
    [i \in 1..Len(stream_schema_message.key_properties) |->
        inflect_name(stream_schema_message.key_properties[i])]

\* The pure functions of a message, tabulated once per message name:
\* stream_schema_message['key_properties'],
KeyPropertiesOf == [m \in MessageNames |-> Message(m).key_properties]

\* primary_column_names(stream_schema_message) as a set,
PrimaryColumnsOf == [m \in MessageNames |-> Range(primary_column_names(Message(m)))]

\* inflect_name(stream_schema_message['stream']),
StreamNameOf == [m \in MessageNames |-> inflect_name(Message(m).stream)]

\* and flatten_schema(stream_schema_message['schema'])
FlattenedOf == [m \in MessageNames |-> flatten_schema(Message(m).schema, <<>>)]

\* the properties a flattened schema can hold: any kinds, with or without one
\* of the formats column_type looks at
SchemaNodes ==
    {ScalarNode(kinds) : kinds \in SUBSET JSONSCHEMA_TYPES \ {{}}}
    \cup {FormatNode(kinds, fmt) : kinds \in SUBSET JSONSCHEMA_TYPES \ {{}},
                                    fmt \in {"date-time", "date"}}

\* column_type of each of them, under either value of use_simple_column_type
ColumnTypeOf ==
    [schema_property \in SchemaNodes |->
        [use_simple \in BOOLEAN |-> column_type(schema_property, use_simple)]]

\* ------------------------------------------------------------------------
\* State
\* ------------------------------------------------------------------------

VARIABLES
    kpath,        \* flatten_key under test: its path (parent_key + [k])
    kout,         \* flatten_key under test: the loop's final state, or "none"
    tprop,        \* column_type under test: the schema property
    tout,         \* column_type under test: what the calls returned
    nstreams,     \* table_name under test: the stream names of two sessions
    nout,         \* table_name under test: what the calls returned
    rrecord,      \* flatten_record under test: the record's fields, in order
    rout,         \* flatten_record under test: what the call returned
    msg,          \* the name of the stream_schema_message given to DbSync
    config_flag,  \* target_config's use_simple_column_type: absent, true, false
    self,         \* the DbSync object: "new", "ready", or "raised" (__init__ raised)
    flat,         \* self.flatten_schema: the sorted <<name, node>> items
    table,        \* the target relation in the database
    temp,         \* the staging relation of load_csv's connection
    sync,         \* the frame of the sync_table call
    load,         \* the frame of the load_csv call
    stmts,        \* the statements the current (or last) call has issued
    fails         \* statements the database collaborator has failed

vars == <<kpath, kout, tprop, tout, nstreams, nout, rrecord, rout, msg, config_flag, self, flat, table, temp, sync, load,
          stmts, fails>>

keyVars == <<kpath, kout>>

typeVars == <<tprop, tout>>

nameVars == <<nstreams, nout>>

recordVars == <<rrecord, rout>>

pureVars == <<keyVars, typeVars, nameVars, recordVars>>

sessionVars == <<msg, config_flag, self, flat, table, temp, sync, load,
                 stmts, fails>>

\* load_csv is called only while the target holds at most this many rows
MaxTableRows == 2

\* the number of statements the collaborator fails in a behaviour
MaxFails == 1

\* the number of rows of a batch file
MaxFileRows == 2

\* SQL NULL (an empty CSV field of the batch file)
NULL == "null"

Values == {"1", "2"}

\* self.target_config.get('use_simple_column_type', True)
use_simple_column_type == config_flag # "false"

FlatNames == [i \in 1..Len(flat) |-> flat[i][1]]

FlatNameSet == Range(FlatNames)

\* column_clause(name, schema_property, use_simple) as <<name, type>>
column_clause(item) == <<item[1], ColumnTypeOf[item[2]][use_simple_column_type]>>

KeyProperties == KeyPropertiesOf[msg]

KeyColumns == PrimaryColumnsOf[msg]

NoRelation == [exists |-> FALSE, cols |-> <<>>, pk |-> {}, rows |-> EmptyBag]

IdleSync == [pc |-> "idle", found_tables |-> {},
             columns_dict |-> <<>>, columns_to_add |-> <<>>,
             columns_to_replace |-> <<>>, dropped |-> FALSE, outcome |-> "none"]

IdleLoad == [pc |-> "idle", file |-> EmptyBag, saved |-> NoRelation,
             outcome |-> "none", failed_at |-> "none"]

\* a statement handed to the collaborator: its kind, the relation, the column
\* of an ALTER, and whether the collaborator executed it
Stmt(op, rel, col, ok) == [op |-> op, rel |-> rel, col |-> col, ok |-> ok]

\* ------------------------------------------------------------------------
\* The PostgreSQL collaborator: the effect of each statement
\* ------------------------------------------------------------------------

\* a row of NULLs over the columns cs
NullRow(cs) == [c \in cs |-> NULL]

\* the bag of f(r) for the rows r of bag B
MapBag(F(_), B) == BagOfAll(F, B)

\* a PRIMARY KEY (pk) constraint holds of the rows: non-null and unique
PrimaryKeyHolds(pk, rows) ==
    \/ pk = {}
    \/ /\ \A r \in BagToSet(rows) : \A c \in pk : r[c] # NULL
       /\ \A r \in BagToSet(rows) : CopiesIn(r, rows) = 1
       /\ \A r1, r2 \in BagToSet(rows) :
              (\A c \in pk : r1[c] = r2[c]) => r1 = r2

\* CREATE [TEMP] TABLE (columns..., PRIMARY KEY (pk)): the new relation
CreatedRelation(clauses, pk) ==
    [exists |-> TRUE,
     cols |-> [n \in {clauses[i][1] : i \in 1..Len(clauses)} |->
                  clauses[CHOOSE i \in 1..Len(clauses) : clauses[i][1] = n][2]],
     pk |-> pk,
     rows |-> EmptyBag]

CanCreate(rel, clauses, pk) ==
    /\ ~rel.exists
    /\ pk \subseteq {clauses[i][1] : i \in 1..Len(clauses)}

\* ALTER TABLE ... ADD COLUMN "name" type
CanAddColumn(rel, name) == rel.exists /\ name \notin DOMAIN rel.cols

\* an ADD COLUMN after which the catalog reports another data type than the
\* one column_type resolved
AddedColumn_Text(rel, name, type) ==
    [rel EXCEPT !.cols = (name :> "text") @@ rel.cols,
                !.rows = MapBag(LAMBDA r : (name :> NULL) @@ r, rel.rows)]

AddedColumn(rel, name, type) ==
    [rel EXCEPT !.cols = (name :> type) @@ rel.cols,
                !.rows = MapBag(LAMBDA r : (name :> NULL) @@ r, rel.rows)]

\* ALTER TABLE ... DROP COLUMN "name" (a primary key over it goes with it)
CanDropColumn(rel, name) == rel.exists /\ name \in DOMAIN rel.cols

DroppedColumn(rel, name) ==
    [rel EXCEPT !.cols = [c \in DOMAIN rel.cols \ {name} |-> rel.cols[c]],
                !.pk = IF name \in rel.pk THEN {} ELSE rel.pk,
                !.rows = MapBag(LAMBDA r : [c \in DOMAIN r \ {name} |-> r[c]],
                                rel.rows)]

\* ------------------------------------------------------------------------
\* DbSync.__init__
\* ------------------------------------------------------------------------

\* DbSync(target_config, stream_schema_message): flatten_schema runs in the
\* constructor; when it raises no object exists and no method can be called
DbSyncInit ==
    /\ self = "new"
    /\ LET r == FlattenedOf[msg]
       IN  /\ self' = IF r.err THEN "raised" ELSE "ready"
           /\ flat' = r.items
    /\ UNCHANGED <<pureVars, msg, config_flag, table, temp, sync, load, stmts,
                   fails>>

\* ------------------------------------------------------------------------
\* sync_table / update_columns: one step per query handed to the collaborator
\* (self.query opens a connection per statement and commits it on exit)
\* ------------------------------------------------------------------------

\* the table_name rows of get_tables: the target is stored under the name the
\* unquoted identifier of CREATE TABLE folds to
LiveTableNames == IF table.exists THEN {StrLower(StreamNameOf[msg])} ELSE {}

\* found_tables of sync_table
FoundTables ==
    {n \in LiveTableNames : StrLower(n) = StrLower(StreamNameOf[msg])}

\* a create_table_query that leaves the PRIMARY KEY clause out
create_table_query_NoKey(is_temporary) ==
    [temporary |-> is_temporary,
     columns |-> [i \in 1..Len(flat) |-> column_clause(flat[i])],
     primary_key |-> {}]

\* create_table_query(is_temporary): the column clauses and the primary key
\* (the PRIMARY KEY clause does not depend on is_temporary)
create_table_query(is_temporary) ==
    [temporary |-> is_temporary,
     columns |-> [i \in 1..Len(flat) |-> column_clause(flat[i])],
     primary_key |-> IF Len(KeyProperties) > 0 THEN KeyColumns ELSE {}]

\* columns_dict of update_columns from the rows of get_table_columns
ColumnsDict(rel) ==
    [n \in {StrLower(c) : c \in DOMAIN rel.cols} |->
        rel.cols[CHOOSE c \in DOMAIN rel.cols : StrLower(c) = n]]

\* a columns_to_add whose membership test is inverted
ColumnsToAdd_Present(columns_dict) ==
    LET present == SelectSeq(flat, LAMBDA item : StrLower(item[1]) \in DOMAIN columns_dict)
    IN  [i \in 1..Len(present) |-> column_clause(present[i])]

\* columns_to_add of update_columns
ColumnsToAdd(columns_dict) ==
    LET missing == SelectSeq(flat, LAMBDA item : StrLower(item[1]) \notin DOMAIN columns_dict)
    IN  [i \in 1..Len(missing) |-> column_clause(missing[i])]

\* the loop of lines 464-478 raises KeyError at columns_dict[name_lower] for a
\* name that was not in the table when the columns were fetched
ReplaceLoopRaises(columns_dict) ==
    \E i \in 1..Len(flat) : StrLower(flat[i][1]) \notin DOMAIN columns_dict

\* a replace condition without the exception for timestamps
MustReplace_AnyMismatch(columns_dict, item) ==
    /\ StrLower(item[1]) \in DOMAIN columns_dict
    /\ columns_dict[StrLower(item[1])] # ColumnTypeOf[item[2]][use_simple_column_type]

\* the condition of lines 468-472 for one item of the flattened schema
MustReplace(columns_dict, item) ==
    LET name_lower == StrLower(item[1])
        col_type == ColumnTypeOf[item[2]][use_simple_column_type]
        col_data_type == columns_dict[name_lower]
    IN  /\ name_lower \in DOMAIN columns_dict
        /\ col_data_type # col_type
        /\ ~(col_data_type = "timestamp without time zone"
                /\ col_type = "timestamp with time zone")

\* a columns_to_replace that takes every desired column the table holds
ColumnsToReplace_Present(columns_dict) ==
    LET held == SelectSeq(flat, LAMBDA item : StrLower(item[1]) \in DOMAIN columns_dict)
    IN  [i \in 1..Len(held) |-> column_clause(held[i])]

\* columns_to_replace of update_columns, when the loop does not raise
ColumnsToReplace(columns_dict) ==
    LET changed == SelectSeq(flat, LAMBDA item : MustReplace(columns_dict, item))
    IN  [i \in 1..Len(changed) |-> column_clause(changed[i])]

\* the statement the sync_table call hands to the collaborator next
SyncStatement(ok) ==
    CASE sync.pc = "get_tables"        -> Stmt("SELECT", "tables", <<>>, ok)
      [] sync.pc = "create_table"      -> Stmt("CREATE TABLE", "target", <<>>, ok)
      [] sync.pc = "get_table_columns" -> Stmt("SELECT", "columns", <<>>, ok)
      [] sync.pc = "add_columns"       ->
             Stmt("ADD COLUMN", "target", sync.columns_to_add[1][1], ok)
      [] sync.pc = "replace" /\ ~sync.dropped ->
             Stmt("DROP COLUMN", "target", sync.columns_to_replace[1][1], ok)
      [] sync.pc = "replace" /\ sync.dropped ->
             Stmt("ADD COLUMN", "target", sync.columns_to_replace[1][1], ok)

\* whether the collaborator can execute the next statement of sync_table
SyncCanExecute ==
    CASE sync.pc = "create_table" ->
             LET q == create_table_query(FALSE)
             IN  CanCreate(table, q.columns, q.primary_key)
      [] sync.pc = "add_columns" -> CanAddColumn(table, sync.columns_to_add[1][1])
      [] sync.pc = "replace" /\ ~sync.dropped ->
             CanDropColumn(table, sync.columns_to_replace[1][1])
      [] sync.pc = "replace" /\ sync.dropped ->
             CanAddColumn(table, sync.columns_to_replace[1][1])
      [] OTHER -> TRUE

\* a statement of sync_table is pending at the current position
SyncQueryPending ==
    \/ sync.pc \in {"get_tables", "create_table", "get_table_columns"}
    \/ sync.pc = "add_columns" /\ sync.columns_to_add # <<>>
    \/ sync.pc = "replace" /\ sync.columns_to_replace # <<>>

SyncFrame == <<pureVars, msg, config_flag, self, flat, temp, load>>

\* sync_table is called
sync_table ==
    /\ self = "ready" /\ sync.pc = "idle" /\ load.pc = "idle"
    /\ sync' = [IdleSync EXCEPT !.pc = "get_tables"]
    /\ stmts' = <<>>
    /\ UNCHANGED <<SyncFrame, table, fails>>

\* lines 498-499: found_tables from get_tables()
get_tables ==
    /\ sync.pc = "get_tables"
    /\ stmts' = Append(stmts, SyncStatement(TRUE))
    /\ sync' = [sync EXCEPT !.found_tables = FoundTables,
                             !.pc = IF FoundTables = {} THEN "create_table"
                                    ELSE "get_table_columns"]
    /\ UNCHANGED <<SyncFrame, table, fails>>

\* lines 500-502: self.query(self.create_table_query()), then return
create_table ==
    /\ sync.pc = "create_table" /\ SyncCanExecute
    /\ LET q == create_table_query(FALSE)
       IN  table' = CreatedRelation(q.columns, q.primary_key)
    /\ stmts' = Append(stmts, SyncStatement(TRUE))
    /\ sync' = [sync EXCEPT !.pc = "idle", !.outcome = "returned"]
    /\ UNCHANGED <<SyncFrame, fails>>

\* lines 447-458: get_table_columns, columns_dict, columns_to_add
get_table_columns ==
    /\ sync.pc = "get_table_columns"
    /\ stmts' = Append(stmts, SyncStatement(TRUE))
    /\ LET columns_dict == ColumnsDict(table)
       IN  sync' = [sync EXCEPT !.pc = "add_columns",
                                !.columns_dict = columns_dict,
                                !.columns_to_add = ColumnsToAdd(columns_dict)]
    /\ UNCHANGED <<SyncFrame, table, fails>>

\* lines 460-461: self.add_column(column, stream) for the next missing column
add_column ==
    /\ sync.pc = "add_columns" /\ sync.columns_to_add # <<>> /\ SyncCanExecute
    /\ table' = AddedColumn(table, sync.columns_to_add[1][1], sync.columns_to_add[1][2])
    /\ stmts' = Append(stmts, SyncStatement(TRUE))
    /\ sync' = [sync EXCEPT !.columns_to_add = Tail(sync.columns_to_add)]
    /\ UNCHANGED <<SyncFrame, fails>>

\* lines 463-478: columns_to_replace is built, or the loop raises KeyError;
\* with nothing to replace the call returns
build_columns_to_replace ==
    /\ sync.pc = "add_columns" /\ sync.columns_to_add = <<>>
    /\ IF ReplaceLoopRaises(sync.columns_dict)
       THEN sync' = [sync EXCEPT !.pc = "idle", !.outcome = "KeyError"]
       ELSE LET todo == ColumnsToReplace(sync.columns_dict)
            IN  sync' = [sync EXCEPT !.pc = IF todo = <<>> THEN "idle" ELSE "replace",
                                     !.outcome = IF todo = <<>> THEN "returned" ELSE "none",
                                     !.columns_to_replace = todo]
    /\ UNCHANGED <<SyncFrame, table, stmts, fails>>

\* line 481: self.drop_column(column_name, stream)
drop_column ==
    /\ sync.pc = "replace" /\ sync.columns_to_replace # <<>> /\ ~sync.dropped
    /\ SyncCanExecute
    /\ table' = DroppedColumn(table, sync.columns_to_replace[1][1])
    /\ stmts' = Append(stmts, SyncStatement(TRUE))
    /\ sync' = [sync EXCEPT !.dropped = TRUE]
    /\ UNCHANGED <<SyncFrame, fails>>

\* line 482: self.add_column(column, stream) of the replaced column; after
\* the last one the call returns
add_replaced_column ==
    /\ sync.pc = "replace" /\ sync.columns_to_replace # <<>> /\ sync.dropped
    /\ SyncCanExecute
    /\ table' = AddedColumn(table, sync.columns_to_replace[1][1],
                            sync.columns_to_replace[1][2])
    /\ stmts' = Append(stmts, SyncStatement(TRUE))
    /\ LET rest == Tail(sync.columns_to_replace)
       IN  sync' = [sync EXCEPT !.columns_to_replace = rest,
                                !.dropped = FALSE,
                                !.pc = IF rest = <<>> THEN "idle" ELSE "replace",
                                !.outcome = IF rest = <<>> THEN "returned" ELSE "none"]
    /\ UNCHANGED <<SyncFrame, fails>>

\* the collaborator fails the pending statement (or the process dies before
\* it takes effect): the exception leaves sync_table, earlier statements stay
\* committed
sync_query_raises ==
    /\ SyncQueryPending
    /\ ~SyncCanExecute \/ fails < MaxFails
    /\ fails' = IF SyncCanExecute THEN fails + 1 ELSE fails
    /\ stmts' = Append(stmts, SyncStatement(FALSE))
    /\ sync' = [sync EXCEPT !.pc = "idle", !.outcome = "raised"]
    /\ UNCHANGED <<SyncFrame, table>>

\* ------------------------------------------------------------------------
\* load_csv: one connection, one transaction (`with connection` commits when
\* the block ends normally and rolls back when an exception leaves it)
\* ------------------------------------------------------------------------

\* ON s.k = t.k for every primary key column (SQL equality: never with NULL)
primary_key_condition(s, t) ==
    \A c \in KeyColumns : s[c] # NULL /\ t[c] # NULL /\ s[c] = t[c]

\* the target row t with every column of the flattened schema set from s
Assigned(t, s) == [c \in DOMAIN t |-> IF c \in FlatNameSet THEN s[c] ELSE t[c]]

\* a staging row as a row of the target: columns outside the list are NULL
AsTargetRow(rel, s) == [c \in DOMAIN rel.cols |-> IF c \in FlatNameSet THEN s[c] ELSE NULL]

\* the statements name every column of the flattened schema in the target
NamesResolve(rel) == rel.exists /\ FlatNameSet \subseteq DOMAIN rel.cols

\* an UPDATE whose WHERE clause matches no row
update_from_temp_table_NoMatch(rel, staging, pick) == rel

\* update_from_temp_table: UPDATE target SET c = s.c, ... FROM temp s WHERE
\* <primary_key_condition>; pick says which matching staging row a target
\* row is updated from
update_from_temp_table(rel, staging, pick) ==
    [rel EXCEPT !.rows =
        MapBag(LAMBDA t : IF \E s \in BagToSet(staging.rows) : primary_key_condition(s, t)
                          THEN Assigned(t, pick[t]) ELSE t,
               rel.rows)]

\* the choices of pick: for each matched target row one staging row matching it
UpdatePicks(rel, staging) ==
    LET matched == {t \in BagToSet(rel.rows) :
                       \E s \in BagToSet(staging.rows) : primary_key_condition(s, t)}
    IN  {pick \in [matched -> BagToSet(staging.rows)] :
            \A t \in matched : primary_key_condition(pick[t], t)}

\* a SELECT DISTINCT s.* in place of SELECT s.*
SelectedForInsert_Distinct(rel, staging) ==
    IF Len(KeyProperties) = 0 THEN SetToBag(BagToSet(staging.rows))
    ELSE [s \in {x \in BagToSet(staging.rows) :
                    ~\E t \in BagToSet(rel.rows) : primary_key_condition(x, t)}
            |-> staging.rows[s]]

\* the rows SELECT s.* ... of insert_from_temp_table selects: every staging
\* row without key properties, else (LEFT OUTER JOIN ... WHERE t.k IS NULL)
\* the staging rows that match no target row
SelectedForInsert(rel, staging) ==
    IF Len(KeyProperties) = 0 THEN staging.rows
    ELSE [s \in {x \in BagToSet(staging.rows) :
                    ~\E t \in BagToSet(rel.rows) : primary_key_condition(x, t)}
            |-> staging.rows[s]]

\* insert_from_temp_table: INSERT INTO target (columns) (SELECT ...)
insert_from_temp_table(rel, staging) ==
    [rel EXCEPT !.rows =
        rel.rows (+) MapBag(LAMBDA s : AsTargetRow(rel, s), SelectedForInsert(rel, staging))]

\* the exit of `with connection` by an exception: the transaction is rolled
\* back, which undoes the target's changes
\* statements that had been committed one by one
RolledBackTable_Kept(saved) == table

RolledBackTable(saved) == saved

\* a CREATE TEMP TABLE that had been committed on its own
RolledBackTemp_Kept == temp

\* ... and the CREATE TEMP TABLE of the same transaction
RolledBackTemp == NoRelation

\* the statement load_csv hands to the collaborator next
LoadStatement(ok) ==
    CASE load.pc = "create_temp" -> Stmt("CREATE TABLE", "temp", <<>>, ok)
      [] load.pc = "copy"        -> Stmt("COPY", "temp", <<>>, ok)
      [] load.pc = "update"      -> Stmt("UPDATE", "target", <<>>, ok)
      [] load.pc = "insert"      -> Stmt("INSERT", "target", <<>>, ok)
      [] load.pc = "drop_temp"   -> Stmt("DROP TABLE", "temp", <<>>, ok)

\* whether the collaborator can execute the next statement of load_csv
LoadCanExecute ==
    CASE load.pc = "create_temp" ->
             LET q == create_table_query(TRUE)
             IN  CanCreate(temp, q.columns, q.primary_key)
      [] load.pc = "copy" ->
             temp.exists /\ PrimaryKeyHolds(temp.pk, temp.rows (+) load.file)
      [] load.pc = "update" -> temp.exists /\ NamesResolve(table)
      [] load.pc = "insert" ->
             /\ temp.exists /\ NamesResolve(table)
             /\ PrimaryKeyHolds(table.pk, insert_from_temp_table(table, temp).rows)
      [] load.pc = "drop_temp" -> temp.exists

LoadFrame == <<pureVars, msg, config_flag, self, flat, sync>>

\* the values a column of a batch file of message m takes (an empty field
\* is NULL)
ColumnValues(m, c) == IF c \in PrimaryColumnsOf[m] THEN Values \cup {NULL} ELSE Values

\* the rows over the columns cs for message m
RowsOver(m, cs) == {r \in [cs -> Values \cup {NULL}] : \A c \in cs : r[c] \in ColumnValues(m, c)}

\* the bag of the rows of a sequence of rows
RECURSIVE FileBag(_)
FileBag(file) ==
    IF file = <<>> THEN EmptyBag ELSE SetToBag({file[1]}) (+) FileBag(Tail(file))

\* the bags of at most n rows drawn from the set rows
BagsUpTo(rows, n) == {FileBag(f) : f \in UNION {[1..k -> rows] : k \in 0..n}}

\* the batch files of at most MaxFileRows rows for each message, as bags of
\* rows over the columns of its flattened schema (the order of the rows of a
\* file does not show in the relations)
FilesOf ==
    [m \in MessageNames |->
        LET items == FlattenedOf[m].items
        IN  BagsUpTo(RowsOver(m, {items[i][1] : i \in 1..Len(items)}), MaxFileRows)]

Files == FilesOf[msg]

\* load_csv(file, count) is called: lines 320-327, the connection is opened
load_csv ==
    /\ self = "ready" /\ sync.pc = "idle" /\ load.pc = "idle"
    /\ BagCardinality(table.rows) <= MaxTableRows
    /\ \E file \in Files :
           load' = [IdleLoad EXCEPT !.pc = "create_temp", !.file = file,
                                    !.saved = table]
    /\ stmts' = <<>>
    /\ UNCHANGED <<LoadFrame, table, temp, fails>>

\* line 328: cur.execute(self.create_table_query(True))
create_temp_table ==
    /\ load.pc = "create_temp" /\ LoadCanExecute
    /\ LET q == create_table_query(TRUE)
       IN  temp' = CreatedRelation(q.columns, q.primary_key)
    /\ stmts' = Append(stmts, LoadStatement(TRUE))
    /\ load' = [load EXCEPT !.pc = "copy"]
    /\ UNCHANGED <<LoadFrame, table, fails>>

\* a load_csv that goes from the bulk ingest to the insert in every case
copy_expert_ThenInsert ==
    /\ load.pc = "copy" /\ LoadCanExecute
    /\ temp' = [temp EXCEPT !.rows = temp.rows (+) load.file]
    /\ stmts' = Append(stmts, LoadStatement(TRUE))
    /\ load' = [load EXCEPT !.pc = "insert"]
    /\ UNCHANGED <<LoadFrame, table, fails>>

\* lines 329-337: cur.copy_expert(copy_sql, file)
copy_expert ==
    /\ load.pc = "copy" /\ LoadCanExecute
    /\ temp' = [temp EXCEPT !.rows = temp.rows (+) load.file]
    /\ stmts' = Append(stmts, LoadStatement(TRUE))
    /\ load' = [load EXCEPT !.pc = IF Len(KeyProperties) > 0 THEN "update" ELSE "insert"]
    /\ UNCHANGED <<LoadFrame, table, fails>>

\* lines 338-340: cur.execute(self.update_from_temp_table())
execute_update ==
    /\ load.pc = "update" /\ LoadCanExecute
    /\ \E pick \in UpdatePicks(table, temp) :
           table' = update_from_temp_table(table, temp, pick)
    /\ stmts' = Append(stmts, LoadStatement(TRUE))
    /\ load' = [load EXCEPT !.pc = "insert"]
    /\ UNCHANGED <<LoadFrame, temp, fails>>

\* lines 341-342: cur.execute(self.insert_from_temp_table())
execute_insert ==
    /\ load.pc = "insert" /\ LoadCanExecute
    /\ table' = insert_from_temp_table(table, temp)
    /\ stmts' = Append(stmts, LoadStatement(TRUE))
    /\ load' = [load EXCEPT !.pc = "drop_temp"]
    /\ UNCHANGED <<LoadFrame, temp, fails>>

\* line 343: cur.execute(self.drop_temp_table()); the with blocks end and the
\* transaction is committed
drop_temp_table ==
    /\ load.pc = "drop_temp" /\ LoadCanExecute
    /\ temp' = NoRelation
    /\ stmts' = Append(stmts, LoadStatement(TRUE))
    /\ load' = [load EXCEPT !.pc = "idle", !.outcome = "returned"]
    /\ UNCHANGED <<LoadFrame, table, fails>>

\* a load_csv whose statements sit in try/finally with the DROP in finally
load_query_raises_FinallyDrop ==
    /\ load.pc \in {"create_temp", "copy", "update", "insert", "drop_temp"}
    /\ ~LoadCanExecute \/ fails < MaxFails
    /\ fails' = IF LoadCanExecute THEN fails + 1 ELSE fails
    /\ stmts' = stmts \o <<LoadStatement(FALSE), Stmt("DROP TABLE", "temp", <<>>, FALSE)>>
    /\ table' = RolledBackTable(load.saved)
    /\ temp' = RolledBackTemp
    /\ load' = [load EXCEPT !.pc = "idle", !.outcome = "raised", !.failed_at = load.pc]
    /\ UNCHANGED LoadFrame

\* the collaborator fails the pending statement: the exception leaves the
\* with blocks, the transaction is rolled back, load_csv raises
load_query_raises ==
    /\ load.pc \in {"create_temp", "copy", "update", "insert", "drop_temp"}
    /\ ~LoadCanExecute \/ fails < MaxFails
    /\ fails' = IF LoadCanExecute THEN fails + 1 ELSE fails
    /\ stmts' = Append(stmts, LoadStatement(FALSE))
    /\ table' = RolledBackTable(load.saved)
    /\ temp' = RolledBackTemp
    /\ load' = [load EXCEPT !.pc = "idle", !.outcome = "raised", !.failed_at = load.pc]
    /\ UNCHANGED LoadFrame

\* ------------------------------------------------------------------------
\* flatten_key as a call of its own
\* ------------------------------------------------------------------------

\* the length of the long segments of the paths flatten_key is called with
SegLen == 22

\* the number of segments of those paths
MaxPathLen == 3

\* n copies of the string s
RECURSIVE Repeat(_, _)
Repeat(s, n) == IF n = 0 THEN <<>> ELSE s \o Repeat(s, n - 1)

\* raw property names: a short one, a long lower-case word, a long camel-case
\* name, a long run of digits, a long snake-case name
Segments ==
    { NameId,
      Repeat(<<"a">>, SegLen),
      Repeat(<<"a", "B">>, SegLen \div 2),
      Repeat(<<"1">>, SegLen),
      Repeat(<<"a", "b", "_">>, SegLen \div 3) \o <<"c">> }

Paths == UNION {[1..n -> Segments] : n \in 1..MaxPathLen}

NoKeyOut == [done |-> FALSE, key |-> <<>>, idx |-> 0]

\* inflect_name of each segment (merged with the empty function, which makes
\* it a table computed once)
InflectedOf == [n \in Segments |-> inflect_name(n)] @@ <<>>

\* the state in which the loop of flatten_key ends, for each path
ReducedOf ==
    [p \in Paths |-> ReduceLoop([i \in 1..Len(p) |-> InflectedOf[p[i]]], 0)] @@ <<>>

\* flatten_key(k, parent_key, sep) is called with parent_key + [k] = kpath
\* and returns
flatten_key_call ==
    /\ ~kout.done
    /\ LET final == ReducedOf[kpath]
       IN  kout' = [done |-> TRUE, key |-> final.key, idx |-> final.idx]
    /\ UNCHANGED <<kpath, typeVars, nameVars, recordVars, sessionVars>>

\* ------------------------------------------------------------------------
\* most_general_type and column_type under test
\* ------------------------------------------------------------------------

\* the schema properties given to them: any set of kinds, with no format,
\* one of the two formats column_type looks at, or another one
TypeProperties ==
    {ScalarNode(kinds) : kinds \in SUBSET JSONSCHEMA_TYPES}
    \cup {FormatNode(kinds, fmt) : kinds \in SUBSET JSONSCHEMA_TYPES,
                                    fmt \in {"date-time", "date", "uri"}}

NoProperty == ScalarNode({})

NoTypeOut == [general |-> "none", column |-> "none"]

\* most_general_type(schema_property['type']) is called and returns
most_general_type_call ==
    /\ tout.general = "none"
    /\ tout' = [tout EXCEPT !.general = most_general_type(tprop.type)]
    /\ UNCHANGED <<tprop, keyVars, nameVars, recordVars, sessionVars>>

\* column_type(schema_property, use_simple=self.use_simple_column_type) is
\* called and returns
column_type_call ==
    /\ tout.column = "none"
    /\ tout' = [tout EXCEPT !.column = column_type(tprop, use_simple_column_type)]
    /\ UNCHANGED <<tprop, keyVars, nameVars, recordVars, sessionVars>>

\* ------------------------------------------------------------------------
\* table_name under test
\* ------------------------------------------------------------------------

\* self.schema_name
schema_name == <<"p">>

\* table_name(table_name, is_temporary)
table_name(stream, is_temporary) ==
    LET name == inflect_name(stream)
    IN  IF is_temporary THEN name \o <<"_", "t", "e", "m", "p">>
        ELSE schema_name \o <<".">> \o name

\* stream names: lower case, upper case, camel case, with a dash, with an
\* underscore, with a leading digit
StreamNames ==
    { <<"a">>, <<"A">>, <<"b">>, <<"a", "b">>, <<"a", "B">>, <<"a", "_", "b">>,
      <<"a", "-", "b">>, <<"1", "a">>, <<"_", "1", "a">> }

NoNames == [call \in {1, 2} \X BOOLEAN |-> <<>>]

\* the session on stream nstreams[i] calls table_name(stream, is_temporary)
table_name_call ==
    \E i \in {1, 2}, is_temporary \in BOOLEAN :
        /\ nout[<<i, is_temporary>>] = <<>>
        /\ nout' = [nout EXCEPT ![<<i, is_temporary>>] =
                        table_name(nstreams[i], is_temporary)]
        /\ UNCHANGED <<nstreams, keyVars, typeVars, recordVars, sessionVars>>

\* ------------------------------------------------------------------------
\* flatten_record under test
\* ------------------------------------------------------------------------

\* the values of a record: a number, a list, a mapping (a dict keeps its
\* fields in insertion order: a sequence of <<key, value>> pairs with distinct
\* keys), and the text json.dumps returns (a str)
NumberValue(digits) == [kind |-> "number", v |-> digits, items |-> <<>>]

ListValue(elements) == [kind |-> "list", v |-> <<>>, items |-> elements]

MappingValue(fields) == [kind |-> "mapping", v |-> <<>>, items |-> fields]

TextValue(chars) == [kind |-> "text", v |-> chars, items |-> <<>>]

\* json.dumps(v) with its default separators ', ' and ': '
RECURSIVE json_dumps(_)
json_dumps(v) ==
    LET part(i) ==
            IF v.kind = "list" THEN json_dumps(v.items[i])
            ELSE <<"\"">> \o v.items[i][1] \o <<"\"", ":", " ">>
                 \o json_dumps(v.items[i][2])
        joined[i \in 0..Len(v.items)] ==
            IF i = 0 THEN <<>>
            ELSE IF i = 1 THEN part(1)
            ELSE joined[i - 1] \o <<",", " ">> \o part(i)
    IN  CASE v.kind = "number" -> v.v
          [] v.kind = "text" -> <<"\"">> \o v.v \o <<"\"">>
          [] v.kind = "list" -> <<"[">> \o joined[Len(v.items)] \o <<"]">>
          [] v.kind = "mapping" -> <<"{">> \o joined[Len(v.items)] \o <<"}">>

\* dict(items): a name keeps the place of its first item and the value of its
\* last one
RECURSIVE dict(_)
dict(items) ==
    IF items = <<>> THEN <<>>
    ELSE LET n == Len(items)
             front == dict(SubSeq(items, 1, n - 1))
         IN  IF \E i \in 1..Len(front) : front[i][1] = items[n][1]
             THEN [i \in 1..Len(front) |->
                     IF front[i][1] = items[n][1] THEN items[n] ELSE front[i]]
             ELSE Append(front, items[n])

\* the list items of flatten_record(d, parent_key) after the loop over the
\* fields of d (an empty d gives no item, as the early return does)
RECURSIVE FlattenItems(_, _)
FlattenItems(d, parent_key) ==
    IF d = <<>> THEN <<>>
    ELSE LET n == Len(d)
             k == d[n][1]
             v == d[n][2]
             new_key == flatten_key(k, parent_key)
             before == FlattenItems(SubSeq(d, 1, n - 1), parent_key)
         IN  IF v.kind = "mapping"
             THEN before
                  \o dict(FlattenItems(v.items, Append(parent_key, k)))
                  \o << <<new_key, TextValue(json_dumps(v))>> >>
             ELSE before
                  \o << <<new_key, IF v.kind = "list" THEN TextValue(json_dumps(v))
                                   ELSE v>> >>

\* flatten_record(d, parent_key, sep='__') of a dict d
flatten_record(d, parent_key) == dict(FlattenItems(d, parent_key))

\* the number of fields of a record
MaxFields == 2

\* the number of mappings nested in one another below a field
MaxDepth == 2

RecordKeys == { <<"a">>, <<"A">>, <<"b">> }

\* values that are no mapping: a number, a list of numbers, a list holding a
\* mapping
Leaves ==
    { NumberValue(<<"1">>),
      ListValue(<<NumberValue(<<"1">>)>>),
      ListValue(<<MappingValue(<< <<(<<"a">>), NumberValue(<<"1">>)>> >>)>>) }

\* the values of a field: a leaf, or a mapping of at most one field nested
\* at most depth deep
RECURSIVE FieldValues(_)
FieldValues(depth) ==
    IF depth = 0 THEN Leaves
    ELSE Leaves
         \cup {MappingValue(<<>>)}
         \cup {MappingValue(<< <<k, v>> >>) :
                 k \in RecordKeys, v \in FieldValues(depth - 1)}

\* the records: up to fields fields with distinct keys
Records(fields, depth) ==
    UNION { { r \in [1..n -> RecordKeys \X FieldValues(depth)] :
                \A i, j \in 1..n : r[i][1] = r[j][1] => i = j } :
            n \in 0..fields }

NoRecordOut == [done |-> FALSE, items |-> <<>>]

\* flatten_record(record) is called (by record_to_csv_row or
\* record_primary_key_string) and returns
flatten_record_call ==
    /\ ~rout.done
    /\ rout' = [done |-> TRUE, items |-> flatten_record(rrecord, <<>>)]
    /\ UNCHANGED <<rrecord, keyVars, typeVars, nameVars, sessionVars>>

\* ------------------------------------------------------------------------
\* Specifications
\* ------------------------------------------------------------------------

\* self.flatten_schema of the message named m, <<>> when __init__ raises
FlatOf(m) == FlattenedOf[m].items

\* the table create_table_query creates for message m under the default
\* configuration, holding the rows of bag rows
TableOf(m, rows) ==
    LET items == FlatOf(m)
    IN  [exists |-> TRUE,
         cols |-> [n \in {items[i][1] : i \in 1..Len(items)} |->
                     ColumnTypeOf[items[CHOOSE i \in 1..Len(items) : items[i][1] = n][2]][TRUE]],
         pk |-> IF Len(KeyPropertiesOf[m]) > 0 THEN PrimaryColumnsOf[m] ELSE {},
         rows |-> rows]

SessionIdle ==
    /\ self = "new" /\ flat = <<>>
    /\ temp = NoRelation
    /\ sync = IdleSync /\ load = IdleLoad
    /\ stmts = <<>> /\ fails = 0

KeyIdle == kpath = <<>> /\ kout = NoKeyOut

TypeIdle == tprop = NoProperty /\ tout = NoTypeOut

NameIdle == nstreams = <<>> /\ nout = NoNames

RecordIdle == rrecord = <<>> /\ rout = NoRecordOut

PureIdle == KeyIdle /\ TypeIdle /\ NameIdle /\ RecordIdle

\* a table an earlier schema version of the stream left behind: the first
\* column of the flattened schema is missing, the others are stored as text
OlderTableOf(m) ==
    LET items == FlatOf(m)
        kept == {items[i][1] : i \in 2..Len(items)}
    IN  [exists |-> TRUE,
         cols |-> [n \in kept |-> "text"],
         pk |-> {},
         rows |-> SetToBag({[n \in kept |-> "1"]})]

SessionMessages == {"flat_key", "collide_nested", "collide_inflect",
                    "collide_deep"}

\* A session on one stream: the object is constructed, then sync_table and
\* load_csv are called in any order, one call at a time.
Init ==
    /\ PureIdle /\ SessionIdle
    /\ msg \in SessionMessages
    /\ config_flag = "absent"
    /\ table \in {NoRelation, OlderTableOf(msg)}

SyncNext ==
    \/ sync_table
    \/ get_tables
    \/ create_table
    \/ get_table_columns
    \/ add_column
    \/ build_columns_to_replace
    \/ drop_column
    \/ add_replaced_column
    \/ sync_query_raises

LoadNext ==
    \/ load_csv
    \/ create_temp_table
    \/ copy_expert
    \/ execute_update
    \/ execute_insert
    \/ drop_temp_table
    \/ load_query_raises

Next == DbSyncInit \/ SyncNext \/ LoadNext

Spec == Init /\ [][Next]_vars

\* ------------------------------------------------------------------------
\* sync_table alone, from any live table of the stream
\* ------------------------------------------------------------------------

\* the data types of the live columns: those column_type resolves to for the
\* messages of SyncMessages, and the type of timestamps of earlier versions
LiveTypes == {"bigint", "boolean", "timestamp with time zone",
              "timestamp without time zone"}

\* a column of the live table that the schema does not name
NameExtra == <<"x">>

SyncMessages == {"time", "time_key"}

\* the live tables of message m: any subset of the desired columns and the
\* extra column, each of any live type, holding one row
LiveTablesOf(m) ==
    LET items == FlatOf(m)
        names == {items[i][1] : i \in 1..Len(items)} \cup {NameExtra}
    IN  {[exists |-> TRUE, cols |-> cols, pk |-> {},
          rows |-> SetToBag({[n \in DOMAIN cols |-> "1"]})] :
             cols \in UNION {[present -> LiveTypes] : present \in SUBSET names}}

InitSync ==
    /\ PureIdle /\ SessionIdle
    /\ msg \in SyncMessages
    /\ config_flag \in {"absent", "false"}
    /\ table \in {NoRelation} \cup LiveTablesOf(msg)

NextSync == DbSyncInit \/ SyncNext

SpecSync == InitSync /\ [][NextSync]_vars

\* ------------------------------------------------------------------------
\* load_csv alone, on the table sync_table has created
\* ------------------------------------------------------------------------

LoadMessages == {"flat", "flat_key", "two_keys"}

\* the contents of the target of message m: at most MaxTableRows rows that
\* satisfy its primary key
TargetsOf(m) ==
    LET empty == TableOf(m, EmptyBag)
    IN  {TableOf(m, rows) : rows \in
            {b \in BagsUpTo(RowsOver(m, DOMAIN empty.cols), MaxTableRows) :
                PrimaryKeyHolds(empty.pk, b)}}

InitLoad ==
    /\ PureIdle /\ SessionIdle
    /\ msg \in LoadMessages
    /\ config_flag = "absent"
    /\ table \in TargetsOf(msg)

NextLoad == DbSyncInit \/ LoadNext

SpecLoad == InitLoad /\ [][NextLoad]_vars

\* ------------------------------------------------------------------------
\* flatten_key alone
\* ------------------------------------------------------------------------

InitKey ==
    /\ kpath \in Paths /\ kout = NoKeyOut
    /\ TypeIdle /\ NameIdle /\ RecordIdle /\ SessionIdle
    /\ msg = "flat" /\ config_flag = "absent" /\ table = NoRelation

NextKey == flatten_key_call

SpecKey == InitKey /\ [][NextKey]_vars

\* ------------------------------------------------------------------------
\* most_general_type and column_type alone
\* ------------------------------------------------------------------------

InitType ==
    /\ tprop \in TypeProperties /\ tout = NoTypeOut
    /\ KeyIdle /\ NameIdle /\ RecordIdle /\ SessionIdle
    /\ msg = "flat" /\ config_flag \in {"absent", "true", "false"}
    /\ table = NoRelation

NextType == most_general_type_call \/ column_type_call

SpecType == InitType /\ [][NextType]_vars

\* ------------------------------------------------------------------------
\* table_name alone, in two sessions
\* ------------------------------------------------------------------------

InitName ==
    /\ nstreams \in StreamNames \X StreamNames /\ nout = NoNames
    /\ KeyIdle /\ TypeIdle /\ RecordIdle /\ SessionIdle
    /\ msg = "flat" /\ config_flag = "absent" /\ table = NoRelation

NextName == table_name_call

SpecName == InitName /\ [][NextName]_vars

\* ------------------------------------------------------------------------
\* flatten_record alone
\* ------------------------------------------------------------------------

InitRecord ==
    /\ rrecord \in Records(MaxFields, MaxDepth) /\ rout = NoRecordOut
    /\ KeyIdle /\ TypeIdle /\ NameIdle /\ SessionIdle
    /\ msg = "flat" /\ config_flag = "absent" /\ table = NoRelation

NextRecord == flatten_record_call

SpecRecord == InitRecord /\ [][NextRecord]_vars

\* ------------------------------------------------------------------------
\* Properties
\* ------------------------------------------------------------------------

\* the paths of the leaves flatten_schema registers below node d, which lies
\* at path parent
RECURSIVE LeafPaths(_, _)
LeafPaths(d, parent) ==
    UNION { LET v == ResolveAnyOf(d.properties[k])
            IN  IF "type" \in DOMAIN v /\ "object" \in v.type /\ "properties" \in DOMAIN v
                THEN LeafPaths(v, Append(parent, k))
                ELSE {Append(parent, k)}
            : k \in DOMAIN d.properties }

\* the generated column name of a path
GeneratedName(path) == flatten_key(path[Len(path)], SubSeq(path, 1, Len(path) - 1))

\* two distinct property paths of the schema produce the same column name
Collides(m) ==
    \E p, q \in LeafPaths(Message(m).schema, <<>>) :
        p # q /\ GeneratedName(p) = GeneratedName(q)

CollidesOf == [m \in MessageNames |-> Collides(m)]

\* C1: a schema in which two distinct property paths generate the same column
\* name is rejected by the constructor (flatten_schema raises), and no
\* statement of any kind is ever issued for the stream: no call is ever in
\* progress, nothing is logged, no relation is created.
C1_CollisionRejectedBeforeAnyStatement ==
    CollidesOf[msg] =>
        /\ self \in {"new", "raised"}
        /\ stmts = <<>>
        /\ sync = IdleSync /\ load = IdleLoad
        /\ temp = NoRelation

C1_Witness == CollidesOf[msg] /\ self = "raised" /\ msg = "collide_deep"

\* the primary key of a row
KeyOf(r) == [c \in KeyColumns |-> r[c]]

\* the rows of a bag have pairwise distinct primary keys
DistinctKeys(rows) ==
    /\ \A r \in BagToSet(rows) : CopiesIn(r, rows) = 1
    /\ \A r1, r2 \in BagToSet(rows) : KeyOf(r1) = KeyOf(r2) => r1 = r2

\* the rows of bag rows whose primary key is the key of no row of batch
RowsOutside(rows, batch) ==
    [t \in {x \in BagToSet(rows) : \A s \in BagToSet(batch) : KeyOf(s) # KeyOf(x)}
        |-> rows[t]]

LoadReturned == load.pc = "idle" /\ load.outcome = "returned"

LoadRaised == load.pc = "idle" /\ load.outcome = "raised"

\* C2: with key properties, after load_csv has completed on a batch of
\* pairwise distinct primary keys, the target holds exactly its prior rows
\* whose key is not in the batch, unchanged, plus one row per staging row with
\* that row's values, and no primary key twice.
C2_MergeResult ==
    (LoadReturned /\ Len(KeyProperties) > 0 /\ DistinctKeys(load.file)) =>
        /\ table.rows = RowsOutside(load.saved.rows, load.file) (+) load.file
        /\ DistinctKeys(table.rows)

\* a batch that updated an existing row to new values and inserted a new row
C2_Witness ==
    /\ LoadReturned /\ Len(KeyProperties) > 0 /\ DistinctKeys(load.file)
    /\ \E s \in BagToSet(load.file) : \E t \in BagToSet(load.saved.rows) :
           KeyOf(s) = KeyOf(t) /\ s # t
    /\ \E s \in BagToSet(load.file) : \A t \in BagToSet(load.saved.rows) :
           KeyOf(s) # KeyOf(t)

\* C3: at the end of every load_csv call, returned or failed at any step,
\* the staging relation does not exist.
C3_StagingGoneAtEnd == load.pc = "idle" => ~temp.exists

\* a call that failed at the insert, after the staging relation was filled
C3_Witness == LoadRaised /\ load.failed_at = "insert" /\ ~temp.exists

\* C4 as claimed: whenever a step of the batch fails, a DROP of the staging
\* relation is still issued after the failed statement.
C4_DropAttemptedAfterFailure ==
    LoadRaised =>
        \E i, j \in 1..Len(stmts) :
            i < j /\ ~stmts[i].ok /\ stmts[j].op = "DROP TABLE"

\* C4 as amended: whenever a step of the batch fails the call ends aborted
\* with the failed statement the last one issued (no DROP follows it), and
\* the staging relation is gone by the rollback of the transaction.
C4_AbortIssuesNothingMore ==
    LoadRaised =>
        /\ stmts # <<>>
        /\ ~stmts[Len(stmts)].ok
        /\ \A i \in 1..(Len(stmts) - 1) : stmts[i].ok /\ stmts[i].op # "DROP TABLE"
        /\ ~temp.exists

\* a call that failed at the update, with the staging relation created
C4_Witness ==
    /\ LoadRaised /\ load.failed_at = "update"
    /\ \E i \in 1..Len(stmts) : stmts[i].op = "CREATE TABLE" /\ stmts[i].ok

\* C10: with no key properties, load_csv on a batch of N rows adds exactly
\* those N rows to the target, duplicates kept, and no UPDATE is ever issued.
C10_BlindInsert ==
    Len(KeyProperties) = 0 =>
        /\ \A i \in 1..Len(stmts) : stmts[i].op # "UPDATE"
        /\ LoadReturned =>
              /\ BagCardinality(table.rows) =
                     BagCardinality(load.saved.rows) + BagCardinality(load.file)
              /\ table.rows = load.saved.rows (+) load.file

\* a batch holding the same row twice, a copy of which the target held already
C10_Witness ==
    /\ LoadReturned /\ Len(KeyProperties) = 0
    /\ \E r \in BagToSet(load.file) :
           CopiesIn(r, load.file) = 2 /\ CopiesIn(r, load.saved.rows) >= 1

\* ------------------------------------------------------------------------
\* sync_table re-run for ever, every statement but MaxFails of them executed
\* ------------------------------------------------------------------------

SyncProgress ==
    \/ DbSyncInit
    \/ sync_table
    \/ get_tables
    \/ create_table
    \/ get_table_columns
    \/ add_column
    \/ build_columns_to_replace
    \/ drop_column
    \/ add_replaced_column

FairSpecSync == SpecSync /\ WF_vars(SyncProgress)

\* the current sync_table call has fetched the live columns (update_columns)
Fetched == \E i \in 1..Len(stmts) : stmts[i] = Stmt("SELECT", "columns", <<>>, TRUE)

\* the sync_table call has ended and the collaborator failed no statement
SyncEnded == sync.pc = "idle" /\ sync.outcome \in {"returned", "KeyError"}

\* the statements of kind op on column name issued in the current call
Issued(op, name) ==
    {i \in 1..Len(stmts) : stmts[i].op = op /\ stmts[i].col = name}

\* the resolved desired type of an item of the flattened schema
DesiredType(item) == ColumnTypeOf[item[2]][use_simple_column_type]

\* the desired column was absent from the live table when it was fetched
Missing(item) == StrLower(item[1]) \notin DOMAIN sync.columns_dict

\* the desired column was in the live table with another type, not tolerated
Mismatched(item) ==
    /\ StrLower(item[1]) \in DOMAIN sync.columns_dict
    /\ sync.columns_dict[StrLower(item[1])] # DesiredType(item)
    /\ ~(sync.columns_dict[StrLower(item[1])] = "timestamp without time zone"
            /\ DesiredType(item) = "timestamp with time zone")

\* C5: for every desired column absent (case-insensitively) from the live
\* columns, update_columns never issues a DROP COLUMN for it and never more
\* than one ADD COLUMN, and has issued exactly one ADD COLUMN for it when the
\* call ends with no statement failed by the database.
C5_MissingColumnAddedOnce ==
    \A k \in 1..Len(flat) :
        (Fetched /\ Missing(flat[k])) =>
            /\ Issued("DROP COLUMN", flat[k][1]) = {}
            /\ Cardinality(Issued("ADD COLUMN", flat[k][1])) <= 1
            /\ SyncEnded =>
                  /\ Cardinality(Issued("ADD COLUMN", flat[k][1])) = 1
                  /\ flat[k][1] \in DOMAIN table.cols
                  /\ table.cols[flat[k][1]] = DesiredType(flat[k])

\* a call that found two desired columns missing and has added both
C5_Witness ==
    /\ Fetched /\ SyncEnded
    /\ Cardinality({k \in 1..Len(flat) : Missing(flat[k])}) = 2
    /\ \A k \in 1..Len(flat) :
           Missing(flat[k]) => Cardinality(Issued("ADD COLUMN", flat[k][1])) = 1

\* the ALTER statements of the current call, in the order issued
IssuedDDL == SelectSeq(stmts, LAMBDA st : st.op # "SELECT")

\* every ADD COLUMN of the missing columns, then DROP COLUMN and ADD COLUMN
\* of each mismatched column
PlannedDDL ==
    LET adds == SelectSeq(flat, Missing)
        replaces == SelectSeq(flat, Mismatched)
    IN  [i \in 1..Len(adds) |-> Stmt("ADD COLUMN", "target", adds[i][1], TRUE)]
        \o [j \in 1..(2 * Len(replaces)) |->
               IF j % 2 = 1
               THEN Stmt("DROP COLUMN", "target", replaces[(j + 1) \div 2][1], TRUE)
               ELSE Stmt("ADD COLUMN", "target", replaces[j \div 2][1], TRUE)]

\* C6: when the live table lacks some desired columns and holds some with a
\* mismatched type, one update_columns call in which the database fails no
\* statement issues every ADD COLUMN of the missing columns first and then,
\* for each mismatched column, a DROP COLUMN immediately followed by an
\* ADD COLUMN.
C6_AddsThenReplacesInOneCall ==
    (Fetched /\ SyncEnded
        /\ (\E k \in 1..Len(flat) : Missing(flat[k]))
        /\ (\E k \in 1..Len(flat) : Mismatched(flat[k])))
    => IssuedDDL = PlannedDDL

\* C7: for every desired column present in the live table with a mismatched,
\* not tolerated type, an update_columns call in which the database fails no
\* statement drops and re-adds the column, and the live column's type equals
\* the desired type afterwards.
C7_MismatchedColumnReplaced ==
    \A k \in 1..Len(flat) :
        (Fetched /\ SyncEnded /\ Mismatched(flat[k])) =>
            /\ Cardinality(Issued("DROP COLUMN", flat[k][1])) = 1
            /\ Cardinality(Issued("ADD COLUMN", flat[k][1])) = 1
            /\ flat[k][1] \in DOMAIN table.cols
            /\ table.cols[flat[k][1]] = DesiredType(flat[k])

\* a sync_table run has returned having issued no DDL
CleanRun ==
    /\ sync.pc = "idle" /\ sync.outcome = "returned"
    /\ IssuedDDL = <<>>

\* every desired column exists with its desired type, or the tolerated one
LiveMatches ==
    /\ table.exists
    /\ \A k \in 1..Len(flat) :
          /\ flat[k][1] \in DOMAIN table.cols
          /\ \/ table.cols[flat[k][1]] = DesiredType(flat[k])
             \/ /\ table.cols[flat[k][1]] = "timestamp without time zone"
                /\ DesiredType(flat[k]) = "timestamp with time zone"

\* C8: from any live table, sync_table re-run for ever (finitely many
\* statements failing or cut short by a crash) eventually completes a run
\* that issues no DDL; from such a run on, every desired column exists with
\* its desired or tolerated type and no later run issues any DDL.
C8_RerunsConverge ==
    /\ <>CleanRun
    /\ [](CleanRun => [](LiveMatches /\ IssuedDDL = <<>>))

\* a run without DDL reached after a crash in the middle of an earlier run
C8_Witness == CleanRun /\ LiveMatches /\ fails = MaxFails /\ Fetched

\* C9: whenever flatten_key returns, the joined name is shorter than the cap
\* (an over-long name would have to be refused, and flatten_key has returned).
C9_ReturnedNameBelowCap ==
    kout.done => Len(Join(Sep, kout.key)) < NameCap

\* the observed kinds other than null
NonNullKinds == tprop.type \ {"null"}

\* the number of non-null observed kinds castable to kind t
CastScore(t) == Cardinality({k \in NonNullKinds : k \in get_castable_types(t)})

\* the position of kind t in sorted order
KindIndex(t) == CHOOSE i \in 1..Len(SortedKinds) : SortedKinds[i] = t

\* the observed kind of the highest score, the first in sorted order on a tie
WinningKind ==
    CHOOSE t \in NonNullKinds :
        \A u \in NonNullKinds :
            \/ CastScore(u) < CastScore(t)
            \/ CastScore(u) = CastScore(t) /\ KindIndex(t) <= KindIndex(u)

\* C11: most_general_type returns string for the empty set and for {null};
\* otherwise the observed kind to which most observed kinds can be cast (the
\* first in sorted order on a tie) if its castable set contains every
\* non-null observed kind, and string if not; the castable set of what it
\* returns always covers the non-null observed kinds.
C11_MostGeneralType ==
    tout.general # "none" =>
        /\ tout.general =
              IF NonNullKinds = {} THEN "string"
              ELSE IF NonNullKinds \subseteq get_castable_types(WinningKind)
                   THEN WinningKind
                   ELSE "string"
        /\ NonNullKinds \subseteq get_castable_types(tout.general)

\* {integer, boolean} gives integer
C11_Witness == tprop.type = {"integer", "boolean"} /\ tout.general = "integer"

\* the first matching rule of the fixed cascade on the observed kinds
Cascade(p) ==
    LET fmt == IF "format" \in DOMAIN p THEN p.format ELSE "none"
    IN  CASE p.type \cap {"object", "array"} # {} -> "jsonb"
          [] OTHER ->
        CASE fmt = "date-time" -> "timestamp with time zone"
          [] fmt = "date" -> "date"
          [] OTHER ->
        CASE "number" \in p.type -> "numeric"
          [] OTHER ->
        CASE {"integer", "string"} \subseteq p.type -> "character varying"
          [] OTHER ->
        CASE "boolean" \in p.type -> "boolean"
          [] OTHER ->
        CASE "integer" \in p.type -> "bigint"
          [] OTHER -> "character varying"

\* the lattice strategy: the most general kind's type, a string kind with a
\* date-time or date format being a timestamp or a date
Lattice(p) ==
    LET fmt == IF "format" \in DOMAIN p THEN p.format ELSE "none"
        kind == most_general_type(p.type)
    IN  CASE kind = "string" /\ fmt = "date-time" -> "timestamp with time zone"
          [] kind = "string" /\ fmt = "date" -> "date"
          [] kind = "number" -> "numeric"
          [] kind = "integer" -> "bigint"
          [] kind \in {"object", "array"} -> "jsonb"
          [] kind = "boolean" -> "boolean"
          [] OTHER -> "character varying"

\* C14: with the use_simple_column_type flag absent or true the column type
\* is the first matching rule of the cascade (document type, timestamp or
\* date, numeric, text for integer with string, boolean, 64-bit integer,
\* text); the lattice strategy resolves it only when the flag is false.
C14_SimpleCascadeByDefault ==
    tout.column # "none" =>
        tout.column = IF config_flag = "false" THEN Lattice(tprop) ELSE Cascade(tprop)

\* the flag is absent and the two strategies disagree: the cascade's boolean
C14_Witness ==
    /\ config_flag = "absent" /\ tprop = ScalarNode({"boolean", "integer"})
    /\ tout.column = "boolean" /\ Lattice(tprop) = "bigint"

\* the desired column was in the live table as timestamp without time zone
\* and is desired as timestamp with time zone
Tolerated(item) ==
    /\ StrLower(item[1]) \in DOMAIN sync.columns_dict
    /\ sync.columns_dict[StrLower(item[1])] = "timestamp without time zone"
    /\ DesiredType(item) = "timestamp with time zone"

\* C12: a live column stored as timestamp without time zone and desired as
\* timestamp with time zone gets no DROP COLUMN and no ADD COLUMN from
\* update_columns, in any run, and keeps its stored type.
C12_TimestampWideningTolerated ==
    \A k \in 1..Len(flat) :
        (Fetched /\ Tolerated(flat[k])) =>
            /\ Issued("DROP COLUMN", flat[k][1]) = {}
            /\ Issued("ADD COLUMN", flat[k][1]) = {}
            /\ flat[k][1] \in DOMAIN table.cols
            /\ table.cols[flat[k][1]] = "timestamp without time zone"

\* a run that replaced another column and left the timestamp column alone
C12_Witness ==
    /\ Fetched /\ sync.pc = "idle" /\ sync.outcome = "returned"
    /\ \E k \in 1..Len(flat) : Tolerated(flat[k])
    /\ \E i \in 1..Len(stmts) : stmts[i].op = "DROP COLUMN"

\* the current sync_table call has its found_tables
Looked == \E i \in 1..Len(stmts) : stmts[i] = Stmt("SELECT", "tables", <<>>, TRUE)

\* the statements of kind op issued in the current call
IssuedOp(op) == {i \in 1..Len(stmts) : stmts[i].op = op}

\* C13: sync_table creates the table, with exactly one CREATE TABLE and no
\* ALTER TABLE, when no table of the normalized stream name exists (compared
\* case-insensitively), with a primary key over the key-property columns if
\* and only if key properties are declared; when the table exists it issues
\* no CREATE TABLE, only the statements of the column diff.
C13_CreateOrDiff ==
    Looked =>
        /\ sync.pc \in {"create_table", "get_table_columns"} =>
              ((sync.found_tables = {}) <=> ~table.exists)
        /\ sync.found_tables = {} =>
              /\ IssuedOp("ADD COLUMN") \cup IssuedOp("DROP COLUMN") = {}
              /\ ~Fetched
              /\ Cardinality(IssuedOp("CREATE TABLE")) <= 1
              /\ (sync.pc = "idle" /\ sync.outcome = "returned") =>
                    /\ Cardinality(IssuedOp("CREATE TABLE")) = 1
                    /\ table.exists
                    /\ DOMAIN table.cols = FlatNameSet
                    /\ table.pk = IF Len(KeyProperties) > 0 THEN KeyColumns ELSE {}
        /\ sync.found_tables # {} =>
              /\ IssuedOp("CREATE TABLE") = {}
              /\ sync.pc = "idle" /\ sync.outcome \in {"returned", "KeyError"} => Fetched

\* a table created for a stream with a key property, under a primary key
C13_Witness ==
    /\ Looked /\ sync.found_tables = {}
    /\ sync.pc = "idle" /\ sync.outcome = "returned"
    /\ Len(KeyProperties) > 0 /\ table.pk = KeyColumns /\ table.pk # {}

\* the steps of a batch, in order
BatchSteps ==
    <<"CREATE TABLE", "COPY">>
    \o (IF Len(KeyProperties) > 0 THEN <<"UPDATE", "INSERT">> ELSE <<"INSERT">>)
    \o <<"DROP TABLE">>

\* the statements issued so far are the first steps of a batch, in order,
\* the staging steps on the staging relation and the others on the target
StepsInOrder ==
    /\ Len(stmts) <= Len(BatchSteps)
    /\ \A i \in 1..Len(stmts) :
          /\ stmts[i].op = BatchSteps[i]
          /\ stmts[i].rel = IF stmts[i].op \in {"UPDATE", "INSERT"} THEN "target"
                            ELSE "temp"

\* a step writes the target only after the bulk ingest and before the drop
WritesBetweenIngestAndDrop ==
    (table' # table /\ load'.outcome # "raised") =>
        /\ load.pc \in {"update", "insert"}
        /\ \E i \in 1..Len(stmts) : stmts[i].op = "COPY" /\ stmts[i].ok
        /\ \A i \in 1..Len(stmts) : stmts[i].op # "DROP TABLE"

\* C15: the statements of a batch are issued in the order create staging,
\* bulk ingest, then UPDATE and INSERT (key properties declared) or one
\* INSERT (none declared), then drop staging; a batch that completes has
\* issued each exactly once; the target is not written before the bulk ingest
\* has finished nor after the staging relation is dropped.
C15_BatchStepOrder ==
    /\ [](StepsInOrder
          /\ (LoadReturned =>
                 /\ Len(stmts) = Len(BatchSteps)
                 /\ \A i \in 1..Len(stmts) : stmts[i].ok))
    /\ [][WritesBetweenIngestAndDrop]_vars

\* a completed batch of a keyed stream that changed the target
C15_Witness ==
    /\ LoadReturned /\ Len(KeyProperties) > 0
    /\ Len(stmts) = 5 /\ stmts[3].op = "UPDATE" /\ stmts[4].op = "INSERT"
    /\ table.rows # load.saved.rows

\* C16: with a database that fails no statement, update_columns returns
\* normally whatever the desired schema and the live columns are.
C16_UpdateColumnsReturns ==
    (Fetched /\ sync.pc = "idle" /\ \A i \in 1..Len(stmts) : stmts[i].ok)
        => sync.outcome = "returned"

\* C17: when a statement of load_csv has failed, the target is what it was
\* before the call: the batch is applied entirely or not at all.
C17_FailedBatchLeavesTarget ==
    LoadRaised => table = load.saved

\* the insert failed after an update that had given an existing row new values
C17_Witness ==
    /\ LoadRaised /\ load.failed_at = "insert"
    /\ \E i \in 1..Len(stmts) : stmts[i].op = "UPDATE" /\ stmts[i].ok
    /\ \E s \in BagToSet(load.file) : \E t \in BagToSet(load.saved.rows) :
           KeyOf(s) = KeyOf(t) /\ s # t
    /\ table = load.saved

\* the desired type of the live column c under the schema of the stream, or
\* "none" when the schema does not name c
DesiredOf(c) ==
    LET items == FlatOf(msg)
    IN  IF \E k \in 1..Len(items) : StrLower(items[k][1]) = StrLower(c)
        THEN LET k == CHOOSE k \in 1..Len(items) : StrLower(items[k][1]) = StrLower(c)
             IN  ColumnTypeOf[items[k][2]][use_simple_column_type]
        ELSE "none"

\* the live column c is not named by the schema, or is stored as desired
Settled(c) == DesiredOf(c) = "none" \/ table.cols[c] = DesiredOf(c)

\* a step leaves every settled column, its type and its values as they are
SettledColumnsKept ==
    \A c \in DOMAIN table.cols :
        Settled(c) =>
            /\ c \in DOMAIN table'.cols
            /\ table'.cols[c] = table.cols[c]
            /\ {r[c] : r \in BagToSet(table'.rows)} = {r[c] : r \in BagToSet(table.rows)}

\* C18: update_columns issues no DROP COLUMN for a live column the schema
\* does not name nor for one stored with its desired type; every step of
\* every sync_table run leaves such columns, their types and their values
\* as they are.
C18_SettledColumnsUntouched ==
    /\ [](\A i \in 1..Len(stmts) :
             stmts[i].op = "DROP COLUMN" =>
                 \E k \in 1..Len(flat) :
                     flat[k][1] = stmts[i].col /\ Mismatched(flat[k]))
    /\ [][SettledColumnsKept]_vars

\* a run that replaced a column and left the column outside the schema, a
\* column of the desired type and their values in place
C18_Witness ==
    /\ Fetched /\ sync.pc = "idle" /\ sync.outcome = "returned"
    /\ \E i \in 1..Len(stmts) : stmts[i].op = "DROP COLUMN" /\ stmts[i].ok
    /\ NameExtra \in DOMAIN table.cols
    /\ \A r \in BagToSet(table.rows) : r[NameExtra] = "1"
    /\ \E k \in 1..Len(flat) :
          /\ ~Mismatched(flat[k]) /\ ~Missing(flat[k])
          /\ \A r \in BagToSet(table.rows) : r[flat[k][1]] = "1"

\* flatten_key is called and every step of it is taken
FairSpecKey == SpecKey /\ WF_vars(flatten_key_call)

\* the segments of the path as flatten_key starts from them
InflectedPath == [i \in 1..Len(kpath) |-> InflectedOf[kpath[i]]]

\* the segments after the first n of them have been abbreviated once each
AbbreviatedUpTo(n) ==
    [i \in 1..Len(kpath) |->
        IF i <= n THEN ReduceSegment(InflectedPath[i]) ELSE InflectedPath[i]]

\* C20: the loop of flatten_key ends for every path; it has run at most as
\* many iterations as the path has segments, has abbreviated exactly the
\* first segments, left to right and once each, going on only while the
\* joined name was at the cap or over it, and has left the segments to the
\* right of the last abbreviated one as they were.
C20_AbbreviationLoopEnds ==
    /\ <>kout.done
    /\ [](kout.done =>
            /\ kout.idx \in 0..Len(kpath)
            /\ kout.key = AbbreviatedUpTo(kout.idx)
            /\ \A i \in (kout.idx + 1)..Len(kpath) : kout.key[i] = InflectedPath[i]
            /\ \A n \in 0..(kout.idx - 1) :
                  Len(Join(Sep, AbbreviatedUpTo(n))) >= NameCap
            /\ kout.idx < Len(kpath) => Len(Join(Sep, kout.key)) < NameCap)

\* a path of three segments of which the loop abbreviated the first two only
C20_Witness ==
    /\ kout.done /\ Len(kpath) = 3 /\ kout.idx = 2
    /\ kout.key[1] # InflectedPath[1] /\ kout.key[2] # InflectedPath[2]
    /\ kout.key[3] = InflectedPath[3]

\* C19: two sessions on streams of different names get different target
\* table names and different staging relation names from table_name.
C19_DistinctRelationNames ==
    nstreams # <<>> /\ nstreams[1] # nstreams[2] =>
        \A is_temporary \in BOOLEAN :
            (nout[<<1, is_temporary>>] # <<>> /\ nout[<<2, is_temporary>>] # <<>>)
                => nout[<<1, is_temporary>>] # nout[<<2, is_temporary>>]

\* ------------------------------------------------------------------------
\* flatten_record: what the result holds
\* ------------------------------------------------------------------------

\* the fields of mapping d at any depth, each with the path of keys that
\* leads to it through mappings: <<path, value>>
RECURSIVE FieldsUnder(_, _)
FieldsUnder(d, parent_key) ==
    UNION { {<<Append(parent_key, d[i][1]), d[i][2]>>}
            \cup (IF d[i][2].kind = "mapping"
                  THEN FieldsUnder(d[i][2].items, Append(parent_key, d[i][1]))
                  ELSE {}) : i \in 1..Len(d) }

\* what the result is to hold for a field's value
HeldValue(v) ==
    IF v.kind \in {"mapping", "list"} THEN TextValue(json_dumps(v)) ELSE v

\* the returned mapping has the entry name -> value
Holds(name, value) ==
    \E i \in 1..Len(rout.items) : rout.items[i] = <<name, value>>

\* two fields of the record, at any depth, are given the same name
RecordCollides ==
    \E f, g \in FieldsUnder(rrecord, <<>>) :
        f[1] # g[1] /\ GeneratedName(f[1]) = GeneratedName(g[1])

\* C21: once flatten_record has returned, its result holds, for every field
\* of the record reached through mappings at any depth, an entry under the
\* field's generated name: the whole value serialized to text for a mapping
\* (next to the entries of its children) and for a list, the value itself
\* otherwise; and it holds no entry for anything inside a list.
C21_EveryFieldHeld ==
    rout.done =>
        /\ \A f \in FieldsUnder(rrecord, <<>>) :
               Holds(GeneratedName(f[1]), HeldValue(f[2]))
        /\ \A i \in 1..Len(rout.items) :
               \E f \in FieldsUnder(rrecord, <<>>) :
                   rout.items[i][1] = GeneratedName(f[1])

\* the same, for the records whose fields are given distinct names
C21_EveryFieldHeldWhenDistinct ==
    (rout.done /\ ~RecordCollides) =>
        /\ \A f \in FieldsUnder(rrecord, <<>>) :
               Holds(GeneratedName(f[1]), HeldValue(f[2]))
        /\ \A i \in 1..Len(rout.items) :
               \E f \in FieldsUnder(rrecord, <<>>) :
                   rout.items[i] = <<GeneratedName(f[1]), HeldValue(f[2])>>

\* a returned call on a record with a nested mapping that has a child, a
\* list, and distinct names
C21_DistinctWitness ==
    /\ rout.done /\ ~RecordCollides
    /\ \E f \in FieldsUnder(rrecord, <<>>) : f[2].kind = "mapping" /\ f[2].items # <<>>
    /\ \E f \in FieldsUnder(rrecord, <<>>) : f[2].kind = "list"

\* a returned call on a record two of whose fields are given the same name
C21_CollidingWitness == rout.done /\ RecordCollides

=============================================================================
